---- MODULE Spec2Model ----
(***************************************************************************)
(* A model of function_app.py: the in-memory sliding-window rate limiter   *)
(* (is_rate_limited), the list_files endpoint and the style_images         *)
(* pipeline with its blob store and image generator.                       *)
(*                                                                         *)
(* time.time() is modelled in whole seconds.  A string is a sequence of    *)
(* symbols: "/" is a symbol, and so is every run of characters that no     *)
(* operation of the program splits (a folder name, a file stem, an         *)
(* extension with its dot).  f-string concatenation is \o.                 *)
(***************************************************************************)
EXTENDS Integers, Sequences, FiniteSets, TLC

VARIABLES
    request_history,  \* the module-level deque of admission timestamps
    now,              \* the clock time.time() reads
    last_check,       \* the last is_rate_limited call: its now, the length of
                      \* the history it found, what it returned
    environ,          \* os.environ: the four variables the handlers read
    store,            \* the blobs of the one existing container: name -> data
    pc,               \* where the handler in progress stands ("idle": none)
    req,              \* style_images locals: container, folders, credentials
    blobs,            \* style_images local: the listing being iterated
    i,                \* index in blobs of the next blob to take
    j,                \* index in PREDEFINED_STYLES of the next style
    image_data,       \* style_images local: the bytes downloaded last
    results,          \* style_images local: processed / failed / skipped
    response,         \* the last HTTP response: status and body
    faults,           \* number of store/generator failures injected so far
    trace,            \* per request: store and generator calls, in order
    before,           \* the store when the request in trace began
    prev,             \* the style_images run completed before this one
    threads           \* invocations that run is_rate_limited side by side:
                      \* where each stands, the now it read, what it returned

vars == <<request_history, now, last_check, environ, store, pc, req, blobs, i, j,
          image_data, results, response, faults, trace, before, prev, threads>>

rlVars == <<request_history, now, last_check, threads>>
runVars == <<req, blobs, i, j, image_data, results>>

----------------------------------------------------------------------------
(* Program constants.                                                      *)

RATE_LIMIT == 100
WINDOW_SECONDS == 60

(* Bounds of the model.                                                    *)

\* the clock stops advancing here
MaxNow == 119
\* store and generator failures injected in one behaviour of Spec
MaxFaults == 2
\* admissions left in the window when a behaviour of Spec starts
MaxAdmits == 2
\* separators that can end an output_folder
MaxSeps == 2
\* invocations the worker's thread pool runs side by side
MaxThreads == 2
\* admission checks one of these invocations' threads makes
MaxCalls == 2

\* how far one step of the clock goes: just inside, on and past the window
Steps == {WINDOW_SECONDS - 1, WINDOW_SECONDS, WINDOW_SECONDS + 1}

----------------------------------------------------------------------------
(* is_rate_limited                                                         *)

\* the while loop: popleft while the front is older than now - WINDOW_SECONDS
RECURSIVE Purge(_, _)
PurgeOnce(h, t) ==
    IF h # <<>> /\ Head(h) < t - WINDOW_SECONDS THEN Tail(h) ELSE h
PurgeThrough(h, t) ==
    IF h # <<>> /\ Head(h) <= t - WINDOW_SECONDS
    THEN Purge(Tail(h), t)
    ELSE h
PurgeNothing(h, t) == h
Purge(h, t) ==
    IF h # <<>> /\ Head(h) < t - WINDOW_SECONDS
    THEN Purge(Tail(h), t)
    ELSE h

\* the return value: True when the purged history already holds RATE_LIMIT
LimitedAbove(h, t) == Len(Purge(h, t)) > RATE_LIMIT
LimitedBeforePurge(h, t) == Len(h) >= RATE_LIMIT
Limited(h, t) == Len(Purge(h, t)) >= RATE_LIMIT

\* request_history after the call: purged, and now appended when admitted
HistoryAfterAlwaysAppend(h, t) == Append(Purge(h, t), t)
HistoryAfterUnpurged(h, t) == IF Limited(h, t) THEN h ELSE Append(h, t)
HistoryAfter(h, t) ==
    IF Limited(h, t) THEN Purge(h, t) ELSE Append(Purge(h, t), t)

\* one call of is_rate_limited(), as each handler makes first
IsRateLimited ==
    /\ request_history' = HistoryAfter(request_history, now)
    /\ last_check' = [now |-> now, found |-> Len(request_history),
                      limited |-> Limited(request_history, now)]
    /\ UNCHANGED <<now, threads>>

\* The same function one step at a time, as a thread runs it beside others.
Threads == 1..MaxThreads
IdleThread == [pc |-> "idle", now |-> 0, calls |-> 0, returned |-> "none"]
NoThreads == [th \in Threads |-> IdleThread]
\* what a step of such a thread leaves alone, request_history apart
threadFrame == <<now, last_check, environ, store, pc, req, blobs, i, j,
                 image_data, results, response, faults, trace, before, prev>>

\* now = time.time()
ReadClock(th) ==
    /\ threads[th].pc \in {"idle", "returned", "raised"}
    /\ threads[th].calls < MaxCalls
    /\ threads' = [threads EXCEPT ![th] =
                     [pc |-> "while", now |-> now, calls |-> @.calls + 1,
                      returned |-> "none"]]
    /\ UNCHANGED <<request_history, threadFrame>>

\* while request_history ...: the truth test of the deque
WhileTest(th) ==
    /\ threads[th].pc = "while"
    /\ threads' = [threads EXCEPT ![th].pc =
                     IF request_history # <<>> THEN "front" ELSE "len"]
    /\ UNCHANGED <<request_history, threadFrame>>

\* ... and request_history[0] < now - WINDOW_SECONDS: IndexError on an
\* empty deque
FrontTest(th) ==
    /\ threads[th].pc = "front"
    /\ threads' = [threads EXCEPT ![th] =
                     IF request_history = <<>>
                     THEN [@ EXCEPT !.pc = "raised", !.returned = "IndexError"]
                     ELSE IF Head(request_history) < @.now - WINDOW_SECONDS
                     THEN [@ EXCEPT !.pc = "popleft"]
                     ELSE [@ EXCEPT !.pc = "len"]]
    /\ UNCHANGED <<request_history, threadFrame>>

\* request_history.popleft(): IndexError on an empty deque
PopLeft(th) ==
    /\ threads[th].pc = "popleft"
    /\ IF request_history = <<>>
       THEN /\ threads' = [threads EXCEPT ![th].pc = "raised",
                                          ![th].returned = "IndexError"]
            /\ UNCHANGED request_history
       ELSE /\ request_history' = Tail(request_history)
            /\ threads' = [threads EXCEPT ![th].pc = "while"]
    /\ UNCHANGED threadFrame

\* if len(request_history) >= RATE_LIMIT: return True
LenTest(th) ==
    /\ threads[th].pc = "len"
    /\ threads' = [threads EXCEPT ![th] =
                     IF Len(request_history) >= RATE_LIMIT
                     THEN [@ EXCEPT !.pc = "returned", !.returned = "True"]
                     ELSE [@ EXCEPT !.pc = "append"]]
    /\ UNCHANGED <<request_history, threadFrame>>

\* request_history.append(now); return False
AppendNow(th) ==
    /\ threads[th].pc = "append"
    /\ request_history' = Append(request_history, threads[th].now)
    /\ threads' = [threads EXCEPT ![th].pc = "returned",
                                  ![th].returned = "False"]
    /\ UNCHANGED threadFrame

----------------------------------------------------------------------------
(* Strings                                                                 *)

DefaultContainer == <<"file-container">>
DefaultSource == <<"source">>
DefaultOutput == <<"output">>

\* str.startswith / str.endswith
StartsWith(s, pre) ==
    Len(pre) <= Len(s) /\ SubSeq(s, 1, Len(pre)) = pre
EndsWith(s, suf) ==
    Len(suf) <= Len(s) /\ SubSeq(s, Len(s) - Len(suf) + 1, Len(s)) = suf

\* str.lower, on the symbols the model's names are made of
LowerSym(c) ==
    CASE c = ".JPG" -> ".jpg"
      [] c = ".PNG" -> ".png"
      [] c = ".TXT" -> ".txt"
      [] OTHER -> c
Lower(s) == [k \in 1..Len(s) |-> LowerSym(s[k])]

\* os.path.basename: what follows the last "/"
RECURSIVE Basename(_)
Basename(p) ==
    IF \E k \in 1..Len(p) : p[k] = "/"
    THEN Basename(Tail(p))
    ELSE p

\* str.replace('//', '/'): one pass, left to right, matches do not overlap
RECURSIVE Replace(_)
Replace(s) ==
    IF Len(s) >= 2 /\ s[1] = "/" /\ s[2] = "/"
    THEN <<"/">> \o Replace(SubSeq(s, 3, Len(s)))
    ELSE IF s = <<>> THEN <<>>
    ELSE <<s[1]>> \o Replace(Tail(s))

----------------------------------------------------------------------------
(* Environment, requests, blob store                                       *)

\* os.environ; a variable that is not set is ""
FullEnv ==
    [TARGET_STORAGE_CONNECTION_STRING |-> "", AzureWebJobsStorage |-> "conn",
     AZURE_API_KEY |-> "key", AZURE_ENDPOINT_URL |-> "url"]
Environs ==
    { FullEnv,
      [FullEnv EXCEPT !.AzureWebJobsStorage = ""],
      [FullEnv EXCEPT !.TARGET_STORAGE_CONNECTION_STRING = "target",
                      !.AZURE_API_KEY = ""],
      [FullEnv EXCEPT !.AZURE_ENDPOINT_URL = ""] }

\* TARGET_STORAGE_CONNECTION_STRING, else AzureWebJobsStorage
ConnectStr(env) ==
    IF env.TARGET_STORAGE_CONNECTION_STRING # ""
    THEN env.TARGET_STORAGE_CONNECTION_STRING
    ELSE env.AzureWebJobsStorage

\* An HTTP request: its query parameters and its body.  A body is not JSON
\* ("invalid": get_json raises ValueError), a JSON object with some fields,
\* or other JSON ("array": a non-empty list).
NoFields == [k \in {} |-> <<>>]
InvalidBody == [kind |-> "invalid", fields |-> NoFields]
ArrayBody == [kind |-> "array", fields |-> NoFields]
ObjectBody(f) == [kind |-> "object", fields |-> f]
Requests ==
    { [params |-> NoFields, body |-> InvalidBody],
      [params |-> NoFields, body |-> ObjectBody("container" :> <<"missing">>)],
      [params |-> ("container" :> <<"missing">>), body |-> InvalidBody],
      [params |-> NoFields, body |-> ArrayBody] }

\* dict.get(key, default)
Get(d, key, default) == IF key \in DOMAIN d THEN d[key] ELSE default

\* The names the service lists, in the order it lists them.
SrcA == <<"source", "/", "a", ".png">>
SrcPhoto == <<"source", "/", "photo", ".JPG">>
SrcReadme == <<"source", "/", "readme", ".txt">>
SrcSub == <<"source", "/", "sub", "/">>
NameOrder == <<SrcA, SrcPhoto, SrcReadme, SrcSub>>

\* two images, a text file, a directory marker, and one variant of a.png
\* and a backup of it that an earlier deployment left behind
OldTarget == <<"output", "/", "watercolor", "/", "a", ".png">>
OldBackup == <<"output", "/", "original", "/", "a", ".png">>
SourceStore ==
    (SrcA :> <<"bytesA">>) @@ (SrcPhoto :> <<"bytesPhoto">>) @@
    (SrcReadme :> <<"text">>) @@ (SrcSub :> <<>>) @@
    (OldTarget :> <<"old">>) @@ (OldBackup :> <<"old">>)
\* one image and nothing else
OneImageStore == (SrcPhoto :> <<"bytesPhoto">>)
InitialStores == {SourceStore, OneImageStore}

\* container_client.exists()
ContainerExists(name) == name = DefaultContainer

\* list_blobs(name_starts_with=prefix), and list_blobs() with prefix <<>>
ListBlobs(st, prefix) ==
    SelectSeq(NameOrder, LAMBDA n : n \in DOMAIN st /\ StartsWith(n, prefix))

\* get_blob_client(name).exists()
ExistsNever(st, name) == FALSE
Exists(st, name) == name \in DOMAIN st

\* upload_blob(name, data, overwrite=True)
UploadLost(st, name, data) == st
UploadKeepExisting(st, name, data) ==
    [n \in DOMAIN st \cup {name} |-> IF n \in DOMAIN st THEN st[n] ELSE data]
Upload(st, name, data) ==
    [n \in DOMAIN st \cup {name} |-> IF n = name THEN data ELSE st[n]]

\* one call recorded in trace
Call(op, name) == [op |-> op, name |-> name]

\* An HTTP response: the status, the plain text of an error, and the JSON list
\* list_files answers with (style_images answers 200 with results).
NoResponse == [route |-> "", status |-> 0, text |-> "", names |-> <<>>]
Respond(route, status, text) ==
    [route |-> route, status |-> status, text |-> text, names |-> <<>>]
\* an exception that leaves the handler: the handler returns no response
Raised(route, what) == [route |-> route, status |-> 0, text |-> what, names |-> <<>>]

NoResults == [processed |-> <<>>, failed |-> <<>>, skipped |-> <<>>]
NoReq == [container_name |-> <<>>, source_folder |-> <<>>,
          output_folder |-> <<>>, api_key |-> "", endpoint_url |-> ""]
NoRun == [req |-> NoReq, results |-> NoResults, status |-> 0]

----------------------------------------------------------------------------
(* list_files: the whole handler                                           *)

\* container name: query parameter, else body field, else "file-container"
ListContainerName(r) ==
    LET fromParams == Get(r.params, "container", <<>>)
        fromBody == IF fromParams = <<>> /\ r.body.kind = "object"
                    THEN Get(r.body.fields, "container", <<>>)
                    ELSE fromParams
    IN  IF fromBody = <<>> THEN DefaultContainer ELSE fromBody

\* what one request gets once admitted: the response and the store calls
ListFilesOutcome(r, listFails) ==
    IF Get(r.params, "container", <<>>) = <<>> /\ r.body.kind = "array"
    THEN [response |-> Raised("list_files", "AttributeError"), trace |-> <<>>]
    ELSE IF ConnectStr(environ) = ""
    THEN [response |-> Respond("list_files", 500, "AzureWebJobsStorage environment variable not set."),
          trace |-> <<>>]
    ELSE IF listFails \/ ~ContainerExists(ListContainerName(r))
    THEN [response |-> Respond("list_files", 500, "Error listing files"),
          trace |-> <<Call("list", <<>>)>>]
    ELSE [response |-> [route |-> "list_files", status |-> 200, text |-> "",
                       names |-> ListBlobs(store, <<>>)],
          trace |-> <<Call("list", <<>>)>>]

ListFiles ==
    /\ pc = "idle"
    /\ IsRateLimited
    /\ before' = store
    /\ IF Limited(request_history, now)
       THEN /\ response' = Respond("list_files", 429, "Rate limit exceeded. Try again later.")
            /\ trace' = <<>>
       ELSE \E o \in {ListFilesOutcome(r, f) : r \in Requests, f \in BOOLEAN} :
            /\ response' = o.response
            /\ trace' = o.trace
    /\ UNCHANGED <<environ, store, pc, runVars, faults, prev>>

\* time passes
Tick ==
    /\ \E d \in Steps :
        /\ now + d <= MaxNow
        /\ now' = now + d
    /\ UNCHANGED <<request_history, last_check, environ, store, pc, runVars,
                   response, faults, trace, before, prev, threads>>

----------------------------------------------------------------------------
(* style_images                                                            *)

PREDEFINED_STYLES ==
    << [name |-> <<"geometric_3d">>,
        prompt_text |-> "Turn this into geometric 3D abstract art, low poly, vibrant colors"],
       [name |-> <<"watercolor">>,
        prompt_text |-> "Transform into a beautiful watercolor painting"],
       [name |-> <<"cyberpunk">>,
        prompt_text |-> "Cyberpunk 2077 style, neon lights, futuristic city, high detail"],
       [name |-> <<"anime">>,
        prompt_text |-> "Anime style, Studio Ghibli inspired, vibrant, detailed"] >>

\* blob.name.endswith('/')
IsDirectoryMarker(name) == EndsWith(name, <<"/">>)

\* any(file_name.lower().endswith(ext) for ext in ['.jpg', '.jpeg', '.png'])
HasImageExtensionExactCase(file_name) ==
    \E ext \in {<<".jpg">>, <<".jpeg">>, <<".png">>} : EndsWith(file_name, ext)
HasImageExtensionAny(file_name) == TRUE
HasImageExtension(file_name) ==
    \E ext \in {<<".jpg">>, <<".jpeg">>, <<".png">>} :
        EndsWith(Lower(file_name), ext)

\* f"{output_folder}/original/{file_name}".replace('//', '/')
OriginalBlobName(output_folder, file_name) ==
    Replace(output_folder \o <<"/", "original", "/">> \o file_name)

\* f"{output_folder}/{style_name}/{file_name}".replace('//', '/')
TargetName(output_folder, style_name, file_name) ==
    Replace(output_folder \o <<"/">> \o style_name \o <<"/">> \o file_name)

\* what the generator answers with status 200
Styled(style_name, data) == <<"styled">> \o style_name \o data

\* the locals the handler sets from the request and the environment
ParseRequest(r) ==
    LET body == IF r.body.kind = "object" THEN r.body.fields ELSE NoFields
    IN  [container_name |-> Get(body, "container", DefaultContainer),
         source_folder |-> Get(body, "source_folder", DefaultSource),
         output_folder |-> Get(body, "output_folder", DefaultOutput),
         api_key |-> environ.AZURE_API_KEY,
         endpoint_url |-> environ.AZURE_ENDPOINT_URL]

\* if not api_key or not endpoint_url
ConfigMissingKeyOnly(q) == q.api_key = ""
ConfigMissing(q) == q.api_key = "" \/ q.endpoint_url = ""

\* the handler returns before the loop: nothing of an earlier run is touched
AnswerAfterListing(resp, calls) ==
    /\ response' = resp
    /\ trace' = Append(calls, Call("list", DefaultSource))
    /\ UNCHANGED <<store, pc, runVars, prev>>
AnswerAtOnce(resp, calls) ==
    /\ response' = resp
    /\ trace' = calls
    /\ UNCHANGED <<store, pc, runVars, prev>>

\* from the admission check to the listing
StyleImagesStart ==
    /\ pc = "idle"
    /\ IsRateLimited
    /\ before' = store
    /\ IF Limited(request_history, now)
       THEN /\ AnswerAtOnce(Respond("style_images", 429, "Rate limit exceeded."), <<>>)
            /\ UNCHANGED faults
       ELSE \E r \in Requests :
            LET q == ParseRequest(r)
                open == <<Call("container_exists", q.container_name)>>
            IN
            IF r.body.kind = "array"
            THEN /\ AnswerAtOnce(Raised("style_images", "AttributeError"), <<>>)
                 /\ UNCHANGED faults
            ELSE IF ConnectStr(environ) = ""
            THEN /\ AnswerAtOnce(Respond("style_images", 500,
                                         "Storage connection string not found."), <<>>)
                 /\ UNCHANGED faults
            ELSE \/ /\ faults < MaxFaults
                    /\ faults' = faults + 1
                    /\ \E calls \in {open, Append(open, Call("list", q.source_folder))} :
                         /\ calls # open => ContainerExists(q.container_name)
                         /\ AnswerAtOnce(Respond("style_images", 500, "Server Error"), calls)
                 \/ /\ ~ContainerExists(q.container_name)
                    /\ AnswerAtOnce(Respond("style_images", 404, "Container does not exist."),
                                    open)
                    /\ UNCHANGED faults
                 \/ /\ ContainerExists(q.container_name)
                    /\ req' = q
                    /\ blobs' = ListBlobs(store, q.source_folder)
                    /\ i' = 1
                    /\ j' = 1
                    /\ image_data' = <<>>
                    /\ results' = NoResults
                    /\ response' = NoResponse
                    /\ trace' = Append(open, Call("list", q.source_folder))
                    /\ pc' = "blob"
                    /\ prev' = IF req = NoReq THEN NoRun
                               ELSE [req |-> req, results |-> results, status |-> 200]
                    /\ UNCHANGED <<store, faults>>
    /\ UNCHANGED environ

\* results with one entry appended to one of its lists
FailedSwallowed(res, file, error) == res
FailedAsProcessed(res, file, error) == [res EXCEPT !.processed = Append(@, file)]
Processed(res, target) == [res EXCEPT !.processed = Append(@, target)]
Skipped(res, target) == [res EXCEPT !.skipped = Append(@, target)]
Failed(res, file, error) ==
    [res EXCEPT !.failed = Append(@, [file |-> file, error |-> error])]

\* one pass of "for blob in blobs" up to the style loop
BlobStep ==
    /\ pc = "blob"
    /\ i <= Len(blobs)
    /\ LET name == blobs[i]
           file_name == Basename(name)
           original_blob_name == OriginalBlobName(req.output_folder, file_name)
       IN
       IF IsDirectoryMarker(name) \/ ~HasImageExtension(file_name)
       THEN /\ i' = i + 1
            /\ UNCHANGED <<store, pc, j, image_data, results, faults, trace>>
       ELSE \/ /\ faults < MaxFaults
               /\ faults' = faults + 1
               /\ results' = Failed(results, name, "download error")
               /\ trace' = Append(trace, Call("download", name))
               /\ i' = i + 1
               /\ UNCHANGED <<store, pc, j, image_data>>
            \/ /\ faults < MaxFaults
               /\ faults' = faults + 1
               /\ image_data' = store[name]
               /\ results' = Failed(results, name, "upload error")
               /\ trace' = trace \o <<Call("download", name),
                                       Call("upload", original_blob_name)>>
               /\ i' = i + 1
               /\ UNCHANGED <<store, pc, j>>
            \/ /\ image_data' = store[name]
               /\ store' = Upload(store, original_blob_name, store[name])
               /\ trace' = trace \o <<Call("download", name),
                                       Call("upload", original_blob_name)>>
               /\ j' = 1
               /\ pc' = "style"
               /\ UNCHANGED <<i, results, faults>>
    /\ UNCHANGED <<rlVars, environ, req, blobs, response, before, prev>>

\* the end of one pass of "for style in PREDEFINED_STYLES"
NextStyleAgain == UNCHANGED <<pc, i, j>>
NextStyle ==
    IF j < Len(PREDEFINED_STYLES)
    THEN j' = j + 1 /\ UNCHANGED <<pc, i>>
    ELSE j' = 1 /\ pc' = "blob" /\ i' = i + 1

\* one pass of "for style in PREDEFINED_STYLES"
StyleStep ==
    /\ pc = "style"
    /\ LET name == blobs[i]
           file_name == Basename(name)
           style_name == PREDEFINED_STYLES[j].name
           target_name == TargetName(req.output_folder, style_name, file_name)
           checked == Append(trace, Call("exists", target_name))
           posted == Append(checked, Call("post", target_name))
       IN
       \/ /\ faults < MaxFaults
          /\ faults' = faults + 1
          /\ results' = Failed(results, name, "exists error")
          /\ trace' = checked
          /\ j' = 1 /\ pc' = "blob" /\ i' = i + 1
          /\ UNCHANGED store
       \/ /\ Exists(store, target_name)
          /\ results' = Skipped(results, target_name)
          /\ trace' = checked
          /\ NextStyle
          /\ UNCHANGED <<store, faults>>
       \/ /\ ~Exists(store, target_name)
          /\ ConfigMissing(req)
          /\ results' = Failed(results, target_name, "API Config Missing")
          /\ trace' = checked
          /\ NextStyle
          /\ UNCHANGED <<store, faults>>
       \/ /\ ~Exists(store, target_name)
          /\ ~ConfigMissing(req)
          /\ faults < MaxFaults
          /\ faults' = faults + 1
          /\ \/ /\ results' = Failed(results, target_name, "transport error")
                /\ trace' = posted
             \/ /\ results' = Failed(results, target_name, "API 500")
                /\ trace' = posted
             \/ /\ results' = Failed(results, target_name, "upload error")
                /\ trace' = Append(posted, Call("upload", target_name))
          /\ NextStyle
          /\ UNCHANGED store
       \/ /\ ~Exists(store, target_name)
          /\ ~ConfigMissing(req)
          /\ store' = Upload(store, target_name, Styled(style_name, image_data))
          /\ results' = Processed(results, target_name)
          /\ trace' = Append(posted, Call("upload", target_name))
          /\ NextStyle
          /\ UNCHANGED faults
    /\ UNCHANGED <<rlVars, environ, req, blobs, image_data, response, before, prev>>

\* the listing is exhausted: json.dumps(results), status 200
StyleImagesReturn ==
    /\ pc = "blob"
    /\ i > Len(blobs)
    /\ pc' = "idle"
    /\ response' = Respond("style_images", 200, "")
    /\ UNCHANGED <<rlVars, environ, store, runVars, faults, trace, before, prev>>

----------------------------------------------------------------------------
(* The limiter under a moving clock; no store failure is injected.         *)

InitRL ==
    /\ request_history = <<>>
    /\ now = 0
    /\ last_check = [now |-> -1, found |-> 0, limited |-> FALSE]
    /\ environ = FullEnv
    /\ store = SourceStore
    /\ pc = "idle"
    /\ req = NoReq
    /\ blobs = <<>>
    /\ i = 1
    /\ j = 1
    /\ image_data = <<>>
    /\ results = NoResults
    /\ response = NoResponse
    /\ faults = MaxFaults
    /\ trace = <<>>
    /\ before = store
    /\ prev = NoRun
    /\ threads = NoThreads

\* style_images takes part with the requests it answers before its loop
NextRL ==
    \/ ListFiles
    \/ StyleImagesStart /\ pc' = "idle"
    \/ Tick

SpecRL == InitRL /\ [][NextRL]_vars

----------------------------------------------------------------------------
(* Both endpoints, one request at a time, the window nearly full.          *)

Init ==
    /\ request_history = [k \in 1..(RATE_LIMIT - MaxAdmits) |-> 0]
    /\ now = 0
    /\ last_check = [now |-> -1, found |-> 0, limited |-> FALSE]
    /\ environ \in Environs
    /\ store \in InitialStores
    /\ pc = "idle"
    /\ req = NoReq
    /\ blobs = <<>>
    /\ i = 1
    /\ j = 1
    /\ image_data = <<>>
    /\ results = NoResults
    /\ response = NoResponse
    /\ faults = 0
    /\ trace = <<>>
    /\ before = store
    /\ prev = NoRun
    /\ threads = NoThreads

Next ==
    \/ ListFiles
    \/ StyleImagesStart
    \/ BlobStep
    \/ StyleStep
    \/ StyleImagesReturn

Spec == Init /\ [][Next]_vars

----------------------------------------------------------------------------
(* Properties of the limiter, under SpecRL.                                *)

\* a step in which a handler runs the admission check: only a handler that
\* starts acts while none is in progress, and it starts with the check
AdmissionCheck == pc = "idle" /\ now' = now /\ last_check'.now = now

\* h is a burst: admissions all made at the instant t
BurstAt(h, t) == \A n \in 1..Len(h) : h[n] = t

\* C1: while the history is a burst of fewer than RATE_LIMIT admissions made at
\* this very instant (none yet included), the next check admits and records
\* the call; once the burst counts RATE_LIMIT admissions, every check made
\* while their timestamp is within WINDOW_SECONDS of the clock is rejected
\* and records nothing.
C1_BurstAdmittedThenRejected ==
    [][AdmissionCheck =>
        /\ (Len(request_history) < RATE_LIMIT /\ BurstAt(request_history, now))
             => /\ ~last_check'.limited
                /\ response'.status # 429
                /\ request_history' = Append(request_history, now)
        /\ (/\ Len(request_history) = RATE_LIMIT
            /\ Head(request_history) >= now - WINDOW_SECONDS
            /\ BurstAt(request_history, Head(request_history)))
             => /\ last_check'.limited
                /\ response'.status = 429
                /\ request_history' = request_history]_vars

\* C1 witness: a full burst made at 0 has just rejected a call at a later time
C1_Witness ==
    /\ Len(request_history) = RATE_LIMIT
    /\ BurstAt(request_history, 0)
    /\ last_check.now = WINDOW_SECONDS - 1
    /\ last_check.limited
    /\ response.status = 429

\* C2: when the history holds RATE_LIMIT timestamps and the clock stands more
\* than WINDOW_SECONDS past the last admission check, the next check admits
\* and leaves exactly its own timestamp in the history.
C2_AdmittedAfterWindow ==
    [][(/\ AdmissionCheck
        /\ Len(request_history) = RATE_LIMIT
        /\ last_check.now >= 0
        /\ now > last_check.now + WINDOW_SECONDS)
        => /\ ~last_check'.limited
           /\ response'.status # 429
           /\ request_history' = <<now>>]_vars

\* C2 witness: a check found RATE_LIMIT entries 61 s after they were
\* recorded, was admitted and is alone in the history
C2_Witness ==
    /\ request_history = <<WINDOW_SECONDS + 1>>
    /\ last_check = [now |-> WINDOW_SECONDS + 1, found |-> RATE_LIMIT,
                     limited |-> FALSE]
    /\ response.status = 200

\* C3 (as stated): after an admission check no recorded timestamp is as old
\* as the check's now - WINDOW_SECONDS: the window is (now - window, now].
C3_BoundaryExpired ==
    \A n \in 1..Len(request_history) :
        request_history[n] > last_check.now - WINDOW_SECONDS

\* C3 (amended): a timestamp exactly WINDOW_SECONDS old at an admission check
\* is not purged and counts toward the limit (with RATE_LIMIT entries the
\* check is rejected), and nothing older is left in front of it: the window
\* is [now - window, now].
C3_BoundaryKept ==
    [][AdmissionCheck =>
        /\ (request_history # <<>> /\ Head(request_history) = now - WINDOW_SECONDS)
             => /\ Head(request_history') = Head(request_history)
                /\ Len(request_history') >= Len(request_history)
                /\ Len(request_history) >= RATE_LIMIT
                     => last_check'.limited /\ response'.status = 429
        /\ request_history' # <<>>
             => Head(request_history') >= now - WINDOW_SECONDS]_vars

\* C3 witness: a check made exactly WINDOW_SECONDS after a full burst was
\* rejected, the burst still in the history
C3_Witness ==
    /\ Len(request_history) = RATE_LIMIT
    /\ BurstAt(request_history, 0)
    /\ last_check.now = WINDOW_SECONDS
    /\ last_check.limited

\* C4: request_history never holds more than RATE_LIMIT entries, whichever
\* endpoint ran the check.
C4_HistoryBounded == Len(request_history) <= RATE_LIMIT

\* C4 witness: style_images was admitted as the last of RATE_LIMIT entries,
\* some of them older than others
C4_Witness ==
    /\ Len(request_history) = RATE_LIMIT
    /\ Head(request_history) < now
    /\ last_check.now = now
    /\ ~last_check.limited
    /\ response.route = "style_images"

----------------------------------------------------------------------------
(* Properties of the handlers, under Spec.                                 *)

Elems(seq) == {seq[k] : k \in 1..Len(seq)}
Total(res) == Len(res.processed) + Len(res.skipped) + Len(res.failed)
CallsOf(op) == {k \in 1..Len(trace) : trace[k].op = op}

\* a style_images run has gone through its loop and answered
RunDone ==
    pc = "idle" /\ response.route = "style_images" /\ response.status = 200
\* ... and it is a rerun: the run before it had the same parameters
RerunDone == RunDone /\ prev.status = 200 /\ prev.req = req

\* the pair the style loop stands at
PairName == blobs[i]
PairTarget ==
    req.output_folder \o <<"/">> \o PREDEFINED_STYLES[j].name
        \o <<"/">> \o Basename(blobs[i])

\* the targets of photo.JPG under the default output folder, in catalog order
PhotoTargets ==
    [k \in 1..Len(PREDEFINED_STYLES) |->
        <<"output", "/">> \o PREDEFINED_STYLES[k].name \o <<"/", "photo", ".JPG">>]
PhotoBackup == <<"output", "/", "original", "/", "photo", ".JPG">>

\* C5: a request the limiter rejects is answered 429 in the same step, with
\* no call on the store or the generator, the store and the results of any
\* earlier run untouched, and no run started.
C5_RejectedTouchesNothing ==
    [][(AdmissionCheck /\ last_check'.limited)
        => /\ response'.status = 429
           /\ trace' = <<>>
           /\ store' = store
           /\ results' = results
           /\ pc' = "idle"]_vars

\* C5 witness: style_images answered 429 after a run that had written blobs
C5_Witness ==
    /\ last_check.limited
    /\ response = Respond("style_images", 429, "Rate limit exceeded.")
    /\ trace = <<>>
    /\ results.processed # <<>>

\* res2 is res with one entry more, in one list: the target in processed or
\* skipped, or a failure keyed by the target or by the source name
OneEntryMore(res, res2, name, target) ==
    \/ /\ res2.processed = Append(res.processed, target)
       /\ res2.skipped = res.skipped /\ res2.failed = res.failed
    \/ /\ res2.skipped = Append(res.skipped, target)
       /\ res2.processed = res.processed /\ res2.failed = res.failed
    \/ /\ Len(res2.failed) = Len(res.failed) + 1
       /\ SubSeq(res2.failed, 1, Len(res.failed)) = res.failed
       /\ res2.failed[Len(res2.failed)].file \in {target, name}
       /\ res2.processed = res.processed /\ res2.skipped = res.skipped

\* objects the run gave up on before the style loop: a download that is not
\* followed by the backup upload and an exists check
ObjectFailures ==
    {k \in CallsOf("download") :
        ~(k + 2 <= Len(trace) /\ trace[k + 1].op = "upload"
                              /\ trace[k + 2].op = "exists")}

\* C6: every pass of the style loop, whatever fails in it, adds exactly one
\* entry to exactly one of processed, skipped and failed; an object that is
\* filtered out adds none and causes no call; so a completed run holds one
\* entry per pair considered and one per object given up before its loop.
C6_OneEntryPerPair ==
    /\ [][/\ pc = "style" => OneEntryMore(results, results', PairName, PairTarget)
          /\ (/\ pc = "blob" /\ i <= Len(blobs)
              /\ blobs[i] \in {SrcReadme, SrcSub})
               => results' = results /\ trace' = trace /\ store' = store]_vars
    /\ [](RunDone =>
            Total(results) =
                Cardinality(CallsOf("exists")) + Cardinality(ObjectFailures))

\* C6 witness: a completed run with entries in all three lists, one failure
\* from an exists check and one from the generator
C6_Witness ==
    /\ RunDone
    /\ results.processed # <<>>
    /\ results.skipped # <<>>
    /\ \E e \in Elems(results.failed) : e.error = "exists error"
    /\ \E e \in Elems(results.failed) : e.error = "API 500"

\* C7 (as stated): after a rerun every target the first run processed is in
\* skipped, and processed is empty.
C7_RerunAllSkipped ==
    RerunDone =>
        /\ Elems(prev.results.processed) \subseteq Elems(results.skipped)
        /\ results.processed = <<>>

\* C7 (amended): after a rerun every target the first run processed is in
\* skipped unless the rerun gave up on its source object (a failed entry
\* keyed by the source name); the rerun processes nothing the first run
\* processed or skipped, and nothing at all when the first run had no failure.
C7_RerunSkipsWritten ==
    RerunDone =>
        /\ \A t \in Elems(prev.results.processed) :
             \/ t \in Elems(results.skipped)
             \/ \E k \in 1..Len(blobs), e \in Elems(results.failed) :
                  /\ e.file = blobs[k]
                  /\ EndsWith(t, <<"/">> \o Basename(blobs[k]))
        /\ Elems(results.processed) \cap
             (Elems(prev.results.processed) \cup Elems(prev.results.skipped)) = {}
        /\ prev.results.failed = <<>> => results.processed = <<>>

\* C7 witness: the first run processed the four variants of photo.JPG and
\* the rerun skipped them and processed nothing
C7_Witness ==
    /\ RerunDone
    /\ Elems(PhotoTargets) \subseteq Elems(prev.results.processed)
    /\ Elems(PhotoTargets) \subseteq Elems(results.skipped)
    /\ results.processed = <<>>

\* C8: a pass of the style loop whose target exists leaves the store as it is
\* and, the exists check answering, appends the target to skipped and nothing
\* else; in every run and rerun a target that existed when the request arrived
\* keeps its content and is never uploaded to.
C8_ExistingTargetKept ==
    /\ [][(pc = "style" /\ PairTarget \in DOMAIN store)
           => /\ store' = store
              /\ faults' = faults
                   => /\ results'.skipped = Append(results.skipped, PairTarget)
                      /\ results'.processed = results.processed
                      /\ results'.failed = results.failed]_vars
    /\ [](\A k \in CallsOf("exists") :
            trace[k].name \in DOMAIN before
                => /\ store[trace[k].name] = before[trace[k].name]
                   /\ Call("upload", trace[k].name) \notin Elems(trace))

\* C8 witness: a rerun has skipped the variant left by an earlier deployment
\* and a variant the run before it wrote, the old content still in place
C8_Witness ==
    /\ RerunDone
    /\ OldTarget \in Elems(results.skipped)
    /\ store[OldTarget] = <<"old">>
    /\ Elems(prev.results.processed) \cap Elems(results.skipped) # {}

\* the run listed a.png first and photo.JPG second, the download of a.png
\* failed and nothing else did, no variant of photo.JPG existed, and the
\* generator is configured
FirstDownloadFailed ==
    /\ RunDone
    /\ blobs = <<SrcA, SrcPhoto, SrcReadme, SrcSub>>
    /\ req.api_key # "" /\ req.endpoint_url # ""
    /\ Elems(PhotoTargets) \cap DOMAIN before = {}
    /\ faults = 1
    /\ Len(trace) >= 3
    /\ trace[3] = Call("download", SrcA)
    /\ Len(trace) >= 4 => trace[4].op # "upload"

\* C9: in that run the answer is 200 with one failed entry, keyed by the
\* first image's source path, the second image's four targets in processed
\* and nothing in skipped; and whatever fails, a completed run has tried to
\* download every image of the listing.
C9_FailureIsolated ==
    /\ FirstDownloadFailed
         => /\ response.status = 200
            /\ Len(results.failed) = 1
            /\ results.failed[1].file = SrcA
            /\ results.processed = PhotoTargets
            /\ results.skipped = <<>>
    /\ (RunDone /\ blobs = <<SrcA, SrcPhoto, SrcReadme, SrcSub>>)
         => /\ Call("download", SrcA) \in Elems(trace)
            /\ Call("download", SrcPhoto) \in Elems(trace)

\* C9 witness: such a run, the four variants of photo.JPG in the store
C9_Witness ==
    /\ FirstDownloadFailed
    /\ Elems(PhotoTargets) \subseteq DOMAIN store
    /\ Len(results.processed) = Len(PREDEFINED_STYLES)

\* C10: with AZURE_API_KEY or AZURE_ENDPOINT_URL unset the generator is never
\* called and nothing is processed; a run over the one image photo.JPG in
\* which no store call fails answers 200 with processed and skipped empty and
\* four failed entries, one per style in catalog order, each "API Config
\* Missing", and has written the backup of the original.
C10_ConfigMissing ==
    (req # NoReq /\ (req.api_key = "" \/ req.endpoint_url = ""))
        => /\ CallsOf("post") = {}
           /\ results.processed = <<>>
           /\ (RunDone /\ blobs = <<SrcPhoto>> /\ faults = 0)
                => /\ results.skipped = <<>>
                   /\ results.failed =
                        [k \in 1..Len(PREDEFINED_STYLES) |->
                            [file |-> PhotoTargets[k], error |-> "API Config Missing"]]
                   /\ PhotoBackup \in DOMAIN store
                   /\ store[PhotoBackup] = <<"bytesPhoto">>
                   /\ Call("upload", PhotoBackup) \in Elems(trace)

\* C10 witness: such a run with the endpoint unset and the key set
C10_Witness ==
    /\ RunDone
    /\ blobs = <<SrcPhoto>>
    /\ faults = 0
    /\ req.api_key # "" /\ req.endpoint_url = ""
    /\ Len(results.failed) = Len(PREDEFINED_STYLES)
    /\ PhotoBackup \in DOMAIN store

\* style_images has answered a request, or an exception has left it
StyleAnswered == pc = "idle" /\ response.route = "style_images"

\* C11 (as stated): every style_images request ends in an HTTP response,
\* whatever its input and whatever fails per file or per style: 429 exactly
\* when the limiter rejected it, 404 only after the container was found
\* missing, 500 only when no connection string is set or the store failed
\* at top level, and otherwise 200; the handler never raises.
C11_NeverRaises ==
    StyleAnswered =>
        /\ response.status \in {200, 404, 429, 500}
        /\ response.status = 429 <=> last_check.limited
        /\ response.status = 404 =>
             /\ Len(trace) = 1
             /\ trace[1].op = "container_exists"
             /\ ~ContainerExists(trace[1].name)
        /\ response.status = 500 => (ConnectStr(environ) = "" \/ faults > 0)

----------------------------------------------------------------------------
(* The names style_images builds, for the output folders a request can      *)
(* give: the two f-strings of the loop, each followed by replace.          *)

\* n separators
Seps(n) == [k \in 1..n |-> "/"]

\* output_folder: empty, a separator alone, a plain name, a nested name, and
\* a name followed by up to MaxSeps separators
OutputFolders ==
    {<<>>, <<"/">>, <<"a", "/", "b">>} \cup {<<"out">> \o Seps(n) : n \in 0..MaxSeps}

\* requests that differ in output_folder only; one leaves it to the default
PathRequests ==
    {[params |-> NoFields, body |-> ObjectBody(NoFields)]} \cup
    {[params |-> NoFields, body |-> ObjectBody("output_folder" :> f)] :
        f \in OutputFolders}

\* the images a listing under the source prefix can hold, and the listings
SrcNested == <<"source", "/", "sub", "/", "b", ".jpeg">>
PathImages == {SrcA, SrcPhoto, SrcNested}
PathListings ==
    {<<a>> : a \in PathImages} \cup
    {l \in {<<a, b>> : a \in PathImages, b \in PathImages} : l[1] # l[2]}

\* original_blob_name is built and handed to upload_blob
BackupName ==
    /\ pc = "backup_name"
    /\ i <= Len(blobs)
    /\ trace' = Append(trace,
           Call("upload", OriginalBlobName(req.output_folder, Basename(blobs[i]))))
    /\ j' = 1
    /\ pc' = "target_name"
    /\ UNCHANGED <<rlVars, environ, store, req, blobs, i, image_data, results,
                   response, faults, before, prev>>

\* target_name is built and handed to get_blob_client
TargetNameBuilt ==
    /\ pc = "target_name"
    /\ trace' = Append(trace,
           Call("get_blob_client",
                TargetName(req.output_folder, PREDEFINED_STYLES[j].name,
                           Basename(blobs[i]))))
    /\ IF j < Len(PREDEFINED_STYLES)
       THEN j' = j + 1 /\ UNCHANGED <<pc, i>>
       ELSE j' = 1 /\ pc' = "backup_name" /\ i' = i + 1
    /\ UNCHANGED <<rlVars, environ, store, req, blobs, image_data, results,
                   response, faults, before, prev>>

InitPath ==
    /\ request_history = <<>>
    /\ now = 0
    /\ last_check = [now |-> -1, found |-> 0, limited |-> FALSE]
    /\ environ = FullEnv
    /\ store = SourceStore
    /\ pc = "backup_name"
    /\ \E r \in PathRequests : req = ParseRequest(r)
    /\ blobs \in PathListings
    /\ i = 1
    /\ j = 1
    /\ image_data = <<>>
    /\ results = NoResults
    /\ response = NoResponse
    /\ faults = MaxFaults
    /\ trace = <<>>
    /\ before = store
    /\ prev = NoRun
    /\ threads = NoThreads

NextPath ==
    \/ BackupName
    \/ TargetNameBuilt

SpecPath == InitPath /\ [][NextPath]_vars

----------------------------------------------------------------------------
(* Properties of the names, under SpecPath.                                *)

\* s holds two separators in a row
Doubled(s) == \E k \in 1..(Len(s) - 1) : s[k] = "/" /\ s[k + 1] = "/"

\* s with its trailing separators removed
RECURSIVE StripSeps(_)
StripSeps(s) ==
    IF s # <<>> /\ s[Len(s)] = "/" THEN StripSeps(SubSeq(s, 1, Len(s) - 1)) ELSE s

\* the path the join is to yield: <style>/<filename> for an empty folder,
\* else <folder>/<style>/<filename> with one separator after the folder
JoinedPath(folder, style_name, file_name) ==
    IF folder = <<>>
    THEN style_name \o <<"/">> \o file_name
    ELSE StripSeps(folder) \o <<"/">> \o style_name \o <<"/">> \o file_name

\* in SpecPath each blob adds its backup name and then one name per style
NamesPerBlob == Len(PREDEFINED_STYLES) + 1

\* C12 (as stated): every target name handed to the store is
\* <style>/<filename> for an empty output_folder, and otherwise
\* <output_folder>/<style>/<filename> with a single separator after the
\* folder, and never holds two separators in a row: whether output_folder is
\* empty, plain, or ends with one or more separators.
C12_TargetPathJoined ==
    \A k \in 1..Len(trace) :
        trace[k].op = "get_blob_client" =>
            /\ trace[k].name =
                 JoinedPath(req.output_folder,
                            PREDEFINED_STYLES[(k - 1) % NamesPerBlob].name,
                            Basename(blobs[(k - 1) \div NamesPerBlob + 1]))
            /\ ~Doubled(trace[k].name)

----------------------------------------------------------------------------
(* More properties of the handlers, under Spec.                            *)

\* a listed name the run is to take: it does not end in "/" and its last
\* part is .jpg, .jpeg or .png in any case
Eligible(name) ==
    /\ name # <<>>
    /\ name[Len(name)] # "/"
    /\ name[Len(name)] \in {".jpg", ".JPG", ".jpeg", ".png", ".PNG"}

\* the name or the path names the text file or the directory marker
OfFilteredObject(path) ==
    \/ path \in {SrcReadme, SrcSub}
    \/ EndsWith(path, <<"/", "readme", ".txt">>)
    \/ EndsWith(path, <<"/">>)

\* every name the results hold: targets, and the keys of failed
ResultNames(res) ==
    Elems(res.processed) \cup Elems(res.skipped) \cup
    {res.failed[k].file : k \in 1..Len(res.failed)}

\* C13: the run downloads listed objects only, and only those that do not
\* end in "/" and whose filename ends in .jpg, .jpeg or .png in any case; no
\* call on the store or the generator and no entry of the results names
\* source/readme.txt or source/sub/; and a run that answers has downloaded
\* every such listed image, source/photo.JPG among them, each of its four
\* targets having an outcome unless the run gave the file up.
C13_OnlyImagesTaken ==
    /\ \A k \in CallsOf("download") :
         trace[k].name \in Elems(blobs) /\ Eligible(trace[k].name)
    /\ \A k \in 1..Len(trace) :
         trace[k].op \in {"download", "upload", "exists", "post"}
             => ~OfFilteredObject(trace[k].name)
    /\ \A n \in ResultNames(results) : ~OfFilteredObject(n)
    /\ RunDone =>
         /\ \A n \in Elems(blobs) :
              Eligible(n) <=> Call("download", n) \in Elems(trace)
         /\ SrcPhoto \in Elems(blobs)
         /\ \/ SrcPhoto \in ResultNames(results)
            \/ Elems(PhotoTargets) \subseteq ResultNames(results)

\* C13 witness: a run over the two images, the text file and the directory
\* marker in which nothing failed has answered: photo.JPG has its four
\* variants, and the eight entries of the results are those of the two images
C13_Witness ==
    /\ RunDone
    /\ blobs = <<SrcA, SrcPhoto, SrcReadme, SrcSub>>
    /\ faults = 0
    /\ Elems(PhotoTargets) \subseteq Elems(results.processed)
    /\ Total(results) = 2 * Len(PREDEFINED_STYLES)
    /\ Cardinality(CallsOf("download")) = 2

----------------------------------------------------------------------------
(* The limiter when the worker runs invocations on several threads: their  *)
(* admission checks interleave step by step on the one request_history.    *)

\* histories that calls made at time 0 leave behind: one entry, and one
\* short of the limit
InitConc ==
    /\ request_history \in {[k \in 1..n |-> 0] : n \in {1, RATE_LIMIT - 1}}
    /\ now = 0
    /\ last_check = [now |-> -1, found |-> 0, limited |-> FALSE]
    /\ environ = FullEnv
    /\ store = SourceStore
    /\ pc = "idle"
    /\ req = NoReq
    /\ blobs = <<>>
    /\ i = 1
    /\ j = 1
    /\ image_data = <<>>
    /\ results = NoResults
    /\ response = NoResponse
    /\ faults = MaxFaults
    /\ trace = <<>>
    /\ before = store
    /\ prev = NoRun
    /\ threads = NoThreads

\* no admission check is in progress
Quiet == \A th \in Threads : threads[th].pc \in {"idle", "returned", "raised"}

\* a check takes far less than a second: the clock moves between checks
NextConc ==
    \/ \E th \in Threads : ReadClock(th)
    \/ \E th \in Threads : WhileTest(th)
    \/ \E th \in Threads : FrontTest(th)
    \/ \E th \in Threads : PopLeft(th)
    \/ \E th \in Threads : LenTest(th)
    \/ \E th \in Threads : AppendNow(th)
    \/ Quiet /\ Tick

SpecConc == InitConc /\ [][NextConc]_vars

----------------------------------------------------------------------------
(* Properties of the limiter under concurrent calls, under SpecConc.       *)

\* the entries of h that lie in the window opening at t
InWindowFrom(h, t) ==
    {m \in 1..Len(h) : h[m] >= t /\ h[m] <= t + WINDOW_SECONDS}

\* C14 (as stated): however the admission checks of concurrent invocations
\* interleave, request_history never holds more than RATE_LIMIT timestamps
\* of one window: no more than RATE_LIMIT requests are admitted per window.
C14_LimitHoldsConcurrently ==
    \A k \in 1..Len(request_history) :
        Cardinality(InWindowFrom(request_history, request_history[k])) <= RATE_LIMIT

\* C15 (as stated): no call of is_rate_limited ends in an error, also when
\* other calls purge the history between its steps: a call that has ended
\* has returned True or False.
C15_AlwaysReturnsBoolean ==
    \A th \in Threads :
        /\ threads[th].pc # "raised"
        /\ threads[th].pc = "returned" => threads[th].returned \in {"True", "False"}

----------------------------------------------------------------------------
(* More properties of the limiter, under SpecRL.                           *)

\* C16: an admission check drops from the front of request_history the
\* timestamps older than its window and no other (the purged history); a
\* rejected check leaves exactly that, with no timestamp appended; an
\* admitted check leaves it with exactly one timestamp more, at the end,
\* equal to its now.
C16_RejectedNotRecorded ==
    [][AdmissionCheck =>
        LET appended == IF last_check'.limited THEN <<>> ELSE <<now>>
            dropped == Len(request_history) + Len(appended) - Len(request_history')
        IN  /\ dropped \in 0..Len(request_history)
            /\ \A k \in 1..dropped : request_history[k] < now - WINDOW_SECONDS
            /\ dropped < Len(request_history)
                 => request_history[dropped + 1] >= now - WINDOW_SECONDS
            /\ request_history' =
                 SubSeq(request_history, dropped + 1, Len(request_history))
                     \o appended
            /\ response'.status = 429 <=> last_check'.limited]_vars

\* C16 witness: a check made 59 s after the window filled up was rejected:
\* the history holds the RATE_LIMIT older timestamps and not the check's now
C16_Witness ==
    /\ last_check.limited
    /\ last_check.found = RATE_LIMIT
    /\ last_check.now = 2 * WINDOW_SECONDS - 2
    /\ Len(request_history) = RATE_LIMIT
    /\ BurstAt(request_history, WINDOW_SECONDS - 1)

\* C17: after every admission check request_history is in non-decreasing
\* order and each of its timestamps lies in [now - WINDOW_SECONDS, now], now
\* being the time of that check; so a check that was rejected counted
\* RATE_LIMIT timestamps of its window and none older.
C17_SortedWithinWindow ==
    /\ \A k \in 1..(Len(request_history) - 1) :
         request_history[k] <= request_history[k + 1]
    /\ \A k \in 1..Len(request_history) :
         /\ request_history[k] >= last_check.now - WINDOW_SECONDS
         /\ request_history[k] <= last_check.now
    /\ last_check.limited => Len(request_history) >= RATE_LIMIT

\* C17 witness: a check has purged what was older than its window, kept a
\* timestamp exactly WINDOW_SECONDS old and appended its own
C17_Witness ==
    /\ last_check.now = 2 * WINDOW_SECONDS - 1
    /\ ~last_check.limited
    /\ last_check.found >= Len(request_history)
    /\ Len(request_history) >= 2
    /\ Head(request_history) = last_check.now - WINDOW_SECONDS
    /\ request_history[Len(request_history)] = last_check.now

----------------------------------------------------------------------------
(* Properties of the backup and of the generator calls, under Spec.        *)

\* the last two parts of a path of the model: the filename
FileOf(path) == SubSeq(path, Len(path) - 1, Len(path))
\* <output_folder>/original/<filename>, for a plain output_folder
BackupOf(path) == req.output_folder \o <<"/", "original", "/">> \o FileOf(path)

\* C18: a pass over an eligible object whose download succeeds downloads it
\* and at once uploads the backup <output_folder>/original/<filename>,
\* whatever the store holds; unless that upload itself fails (the object is
\* then given up, with a failed entry and no exists check) the store holds
\* the downloaded bytes there afterwards, an older backup being overwritten;
\* and every exists check and generator call of a run comes after the upload
\* of the backup of its object.
C18_BackupAlwaysWritten ==
    /\ [][(/\ pc = "blob" /\ i <= Len(blobs) /\ Eligible(blobs[i])
           /\ results' # Failed(results, blobs[i], "download error"))
           => /\ trace' = trace \o <<Call("download", blobs[i]),
                                     Call("upload", BackupOf(blobs[i]))>>
              /\ \/ /\ store' = [n \in DOMAIN store \cup {BackupOf(blobs[i])} |->
                                   IF n = BackupOf(blobs[i])
                                   THEN store[blobs[i]] ELSE store[n]]
                    /\ results' = results
                    /\ pc' = "style"
                 \/ /\ store' = store
                    /\ results' = Failed(results, blobs[i], "upload error")
                    /\ pc' = "blob" /\ i' = i + 1]_vars
    /\ [](\A k \in CallsOf("exists") \cup CallsOf("post") :
            \E m \in 1..(k - 1) :
                trace[m] = Call("upload", BackupOf(trace[k].name)))

\* C18 witness: a rerun in which nothing failed has skipped the four variants
\* of a.png, called the generator for nothing, and yet has uploaded the
\* backup of a.png, which holds the bytes of a.png and no longer the old ones
C18_Witness ==
    /\ RerunDone
    /\ faults = 0
    /\ blobs = <<SrcA, SrcPhoto, SrcReadme, SrcSub>>
    /\ Len(results.skipped) = 2 * Len(PREDEFINED_STYLES)
    /\ CallsOf("post") = {}
    /\ Call("upload", OldBackup) \in Elems(trace)
    /\ store[OldBackup] = <<"bytesA">>

\* the names of failed
FailedFiles(res) == {res.failed[k].file : k \in 1..Len(res.failed)}

\* C19: in one run no two generator calls are made for the same target, so
\* none for the same (object, style) pair; a call is made only after the
\* exists check of its target, for a target that neither was in the store
\* when the run began nor was uploaded earlier in the run, and never while
\* the API key or the endpoint is missing; and every call has its one
\* outcome: the target in processed, or else in failed.
C19_GeneratorOncePerPair ==
    /\ \A k, m \in CallsOf("post") : trace[k].name = trace[m].name => k = m
    /\ \A k \in CallsOf("post") :
         /\ k > 1 /\ trace[k - 1] = Call("exists", trace[k].name)
         /\ trace[k].name \notin DOMAIN before
         /\ \A m \in 1..(k - 1) : trace[m] # Call("upload", trace[k].name)
         /\ req.api_key # "" /\ req.endpoint_url # ""
         /\ \/ /\ trace[k].name \in Elems(results.processed)
               /\ trace[k].name \notin FailedFiles(results)
            \/ /\ trace[k].name \in FailedFiles(results)
               /\ trace[k].name \notin Elems(results.processed)

\* C19 witness: a run over the two images has answered; the generator
\* was called for every pair but the one whose target existed, once each,
\* and one of the calls failed and stayed failed
C19_Witness ==
    /\ RunDone
    /\ blobs = <<SrcA, SrcPhoto, SrcReadme, SrcSub>>
    /\ OldTarget \in Elems(results.skipped)
    /\ Cardinality(CallsOf("post")) = 2 * Len(PREDEFINED_STYLES) - 1
    /\ Len(results.processed) = 2 * Len(PREDEFINED_STYLES) - 2
    /\ \E e \in Elems(results.failed) : e.error = "transport error"

\* what failed records when the generator answers with another status than
\* 200 or cannot be reached
GeneratorErrors == {"API 500", "transport error"}

\* C20: a pass of the style loop that records a failure of the generator
\* leaves the store as it was, the target absent; a rerun does not skip such
\* a target but calls the generator for it again, unless it gives the source
\* object up before; and, while a run is in progress and when it answers,
\* every target in processed was uploaded in the run, at a path that held
\* nothing when the run began, and is in the store.
C20_FailedTargetAbsent ==
    /\ [][(/\ pc = "style"
           /\ results' = Failed(results, PairTarget, "API 500")
              \/ results' = Failed(results, PairTarget, "transport error"))
           => /\ store' = store
              /\ PairTarget \notin DOMAIN store']_vars
    /\ [](RerunDone =>
            \A k \in 1..Len(prev.results.failed) :
                prev.results.failed[k].error \in GeneratorErrors
                    => /\ prev.results.failed[k].file \notin Elems(results.skipped)
                       /\ \/ Call("post", prev.results.failed[k].file) \in Elems(trace)
                          \/ \E n \in FailedFiles(results) \cap Elems(blobs) :
                               FileOf(n) = FileOf(prev.results.failed[k].file))
    /\ []((pc # "idle" \/ RunDone) =>
            \A t \in Elems(results.processed) :
                /\ Call("upload", t) \in Elems(trace)
                /\ t \notin DOMAIN before
                /\ t \in DOMAIN store)

\* C20 witness: the generator answered 500 for a pair in one run, and the
\* rerun called it for that pair again and wrote the target
C20_Witness ==
    /\ RerunDone
    /\ \E k \in 1..Len(prev.results.failed) :
         /\ prev.results.failed[k].error = "API 500"
         /\ Call("post", prev.results.failed[k].file) \in Elems(trace)
         /\ prev.results.failed[k].file \in Elems(results.processed)
         /\ prev.results.failed[k].file \in DOMAIN store

====
